---- MODULE Spec2Model ----
(***************************************************************************)
(* The "app status" command of the CLI (package cli): Validate, Ask         *)
(* (askProject, askAppEnvName) and Execute of appStatusOpts, run in that    *)
(* order by the RunE closure of BuildAppStatusCmd.                          *)
(*                                                                          *)
(* The collaborators (store, prompt, initAppDescriber, appDescriber,        *)
(* statusDescriber) answer nondeterministically; every call the command     *)
(* makes to one of them is appended to the log "calls", in program order.   *)
(*                                                                          *)
(* A deployment probe of a (project, environment, service) triple is the    *)
(* pair of calls initAppDescriber(o, env, svc); appDescriber.GetServiceArn()*)
(* of the probing loop: the first builds the describer for the triple, the  *)
(* second asks it.  Both are logged with the triple.                        *)
(***************************************************************************)
EXTENDS Integers, Sequences, FiniteSets, TLC

VARIABLES
    pc,           \* position of the run: which step of RunE comes next
    flags,        \* the appStatusVars the options were constructed from
    appName,      \* o.appName (GlobalOpts), the project identifier
    svcName,      \* o.svcName
    envName,      \* o.envName
    appNames,     \* askAppEnvName: local appNames (service candidates)
    envNames,     \* askAppEnvName: local envNames (environment candidates)
    ai,           \* askAppEnvName: position of the outer loop in appNames
    ei,           \* askAppEnvName: position of the inner loop in envNames
    appEnvs,      \* askAppEnvName: local map display key -> svcEnv
    appEnvNames,  \* askAppEnvName: local ordered display keys
    calls,        \* log of the collaborator calls made so far
    out,          \* what was printed: log.Infof notices and writes to o.w
    err,          \* the error the run ended with (Nil while it has none)
    colorEnv,     \* what lookupEnv("COLOR") answers: [exists, value]
    NoColor,      \* color.NoColor of the colour library
    DisableColor  \* core.DisableColor of the prompt library

vars == <<pc, flags, appName, svcName, envName, appNames, envNames, ai, ei,
          appEnvs, appEnvNames, calls, out, err, colorEnv, NoColor, DisableColor>>

---------------------------------------------------------------------------
(* Bounds of the model. *)

\* Longest listing ListServices or ListEnvironments returns.
MaxList == 2

\* Largest cross product of service and environment candidates that is probed.
MaxPairs == 4

\* Identifiers the catalog may hold.  "api/test" and "test/test" are there so
\* that two different pairs can share a display key.
ProjNames == {"coffee", "tea"}
SvcNames == {"api", "api/test"}
EnvNames == {"test", "test/test"}

---------------------------------------------------------------------------
(* Helpers. *)

Range(s) == {s[k] : k \in 1..Len(s)}

\* All sequences over S of length lo..hi.
SeqsOf(S, lo, hi) == UNION {[1..n -> S] : n \in lo..hi}

\* What ListApplications may return: the projects of the catalog, each once,
\* in any order; the catalog may hold none, some or all of ProjNames.
ProjListings ==
    {q \in SeqsOf(ProjNames, 0, Cardinality(ProjNames)) :
        \A i, j \in 1..Len(q) : q[i] = q[j] => i = j}

\* What ListServices and ListEnvironments may return: any sequence of names,
\* a name possibly more than once.
Listings(names, longest) == SeqsOf(names, 0, longest)

\* One logged collaborator call: the operation, its arguments, how it ended
\* and, for a listing or a selection, what it returned.
Call(op, args, res, ret) == [op |-> op, args |-> args, res |-> res, ret |-> ret]

\* An error value: the format string that built it (msg), the identifiers
\* formatted into it (names) and the kind of the error it wraps with %w
\* (cause, "" when it wraps none).  An error returned as received has msg "".
Error(msg, names, cause) == [msg |-> msg, names |-> names, cause |-> cause]

Nil == Error("nil", <<>>, "")

\* The prompts of the two selections.
appStatusProjectNamePrompt == "Which project's applications status would you like to show?"
svcLogNamePrompt == "svcLogNamePrompt"

\* A logged o.prompt.SelectOne(prompt, help, choices): the arguments are the
\* prompt followed by the choices.
SelectOne(prompt, choices, res, ret) == Call("SelectOne", <<prompt>> \o choices, res, ret)

\* The sub-sequence of the log made of the calls whose operation is in ops.
CallsOf(ops) == SelectSeq(calls, LAMBDA c : c.op \in ops)

---------------------------------------------------------------------------
(* Pieces of the code the handlers share. *)

\* Variant of NotPassedIn: every identifier is asked for, passed in or not.
NotPassedInAlways(name) == TRUE

\* The tests `o.AppName() != ""`, `o.svcName == ""`, `o.envName == ""`: an
\* identifier is asked for exactly when it was not passed in.
NotPassedIn(name) == name = ""

\* Variants of IsStackNotExistsErr: every failure of GetServiceArn counts as
\* "not deployed"; none does.
IsStackNotExistsErrAny(res) == TRUE
IsStackNotExistsErrNever(res) == FALSE

\* describe.IsStackNotExistsErr(err): the one failure of GetServiceArn that
\* means "not deployed".
IsStackNotExistsErr(res) == res = "NotDeployed"

\* Variant of SvcEnv: the two fields are filled the wrong way round.
SvcEnvSwapped(svc, env) == [svcName |-> env, envName |-> svc]

\* Variant of SvcEnv: the environment is left out of the pair.
SvcEnvWithoutEnv(svc, env) == [svcName |-> svc, envName |-> ""]

\* svcEnv{svcName, envName}.
SvcEnv(svc, env) == [svcName |-> svc, envName |-> env]

\* svcEnv.String(): the display key of a pair.
String(appEnv) == appEnv.svcName \o "/" \o appEnv.envName

EmptyMap == [k \in {} |-> SvcEnv("", "")]

\* Variant of Put: the pair is stored under its service name.
PutUnderServiceName(m, k, v) ==
    [x \in (DOMAIN m) \cup {v.svcName} |-> IF x = v.svcName THEN v ELSE m[x]]

\* The map assignment m[k] = v.
Put(m, k, v) == [x \in (DOMAIN m) \cup {k} |-> IF x = k THEN v ELSE m[x]]

\* Variant of IsEmpty: the emptiness checks are missing.
IsEmptyNever(names) == FALSE

\* The checks `len(...) == 0`.
IsEmpty(names) == Len(names) = 0

\* Variant of OnlyOne: a single deployed pair is prompted for like any other.
OnlyOneNever(names) == FALSE

\* Variant of OnlyOne: the first deployed pair is taken whenever there is one.
OnlyOneOrMore(names) == Len(names) >= 1

\* The check `len(appEnvNames) == 1`.
OnlyOne(names) == Len(names) = 1

\* Variant of Retain: the key is put in front of the ones found before it.
RetainInFront(names, key) == <<key>> \o names

\* appEnvNames = append(appEnvNames, appEnvName)
Retain(names, key) == Append(names, key)

\* Variant of Wrap: the error is formatted with %v and its kind is lost.
WrapLosingCause(msg, names, cause) == Error(msg, names, "")

\* fmt.Errorf("...: %w", ..., err): the new error keeps the kind of err.
Wrap(msg, names, cause) == Error(msg, names, cause)

\* How a store lookup of Validate ends.
Lookup(found) == IF found THEN "ok" ELSE "NotFound"

\* Variant of Failed: the error is kept but the run goes on to Execute.
FailedButGoesOn(e) ==
    /\ err' = e
    /\ pc' = "Execute"

Failed(e) ==
    /\ err' = e
    /\ pc' = "done"

\* lookupEnv answers for a variable that is not set, and for one set to value
\* (a sequence of characters).
Unset == [exists |-> FALSE, value |-> <<>>]
SetTo(value) == [exists |-> TRUE, value |-> value]

---------------------------------------------------------------------------
(* State after newAppStatusOpts(vars): the options hold a copy of vars. *)

Init ==
    /\ flags \in [appName : {""} \cup ProjNames,
                  svcName : {""} \cup SvcNames,
                  envName : {""} \cup EnvNames]
    /\ appName = flags.appName
    /\ svcName = flags.svcName
    /\ envName = flags.envName
    /\ pc = "Validate"
    /\ appNames = <<>>
    /\ envNames = <<>>
    /\ ai = 1
    /\ ei = 1
    /\ appEnvs = EmptyMap
    /\ appEnvNames = <<>>
    /\ calls = <<>>
    /\ out = <<>>
    /\ err = Nil
    /\ colorEnv = Unset
    /\ NoColor = FALSE
    /\ DisableColor = FALSE

---------------------------------------------------------------------------
(* appStatusOpts.Validate *)

\* Variant of ValidateCalls: nothing is looked up while the project is not
\* known.
ValidateCallsSkippingWithoutProject(fa, fs, fe) ==
    IF NotPassedIn(appName)
    THEN <<>>
    ELSE <<Call("GetApplication", <<appName>>, Lookup(fa), <<>>)>>
         \o (IF fa /\ ~NotPassedIn(svcName)
             THEN <<Call("GetService", <<appName, svcName>>, Lookup(fs), <<>>)>>
             ELSE <<>>)
         \o (IF fa /\ (NotPassedIn(svcName) \/ fs) /\ ~NotPassedIn(envName)
             THEN <<Call("GetEnvironment", <<appName, envName>>, Lookup(fe), <<>>)>>
             ELSE <<>>)

\* Variant of ValidateCalls: every lookup is made, whatever the lookups
\* before it answered.
ValidateCallsNoEarlyReturn(fa, fs, fe) ==
    (IF ~NotPassedIn(appName)
     THEN <<Call("GetApplication", <<appName>>, Lookup(fa), <<>>)>> ELSE <<>>)
    \o (IF ~NotPassedIn(svcName)
        THEN <<Call("GetService", <<appName, svcName>>, Lookup(fs), <<>>)>> ELSE <<>>)
    \o (IF ~NotPassedIn(envName)
        THEN <<Call("GetEnvironment", <<appName, envName>>, Lookup(fe), <<>>)>> ELSE <<>>)

\* The lookups Validate makes when the catalog answers (fa, fs, fe) to the
\* lookups of the project, the service and the environment: each one is
\* made only for an identifier that was passed in, and only when the
\* lookups before it found theirs.
ValidateCalls(fa, fs, fe) ==
    LET c1 == IF ~NotPassedIn(appName)
              THEN <<Call("GetApplication", <<appName>>, Lookup(fa), <<>>)>>
              ELSE <<>>
        ok1 == NotPassedIn(appName) \/ fa
        c2 == IF ok1 /\ ~NotPassedIn(svcName)
              THEN <<Call("GetService", <<appName, svcName>>, Lookup(fs), <<>>)>>
              ELSE <<>>
        ok2 == ok1 /\ (NotPassedIn(svcName) \/ fs)
        c3 == IF ok2 /\ ~NotPassedIn(envName)
              THEN <<Call("GetEnvironment", <<appName, envName>>, Lookup(fe), <<>>)>>
              ELSE <<>>
    IN  c1 \o c2 \o c3

Validate ==
    /\ pc = "Validate"
    /\ \E fa \in BOOLEAN, fs \in BOOLEAN, fe \in BOOLEAN :
        LET made == ValidateCalls(fa, fs, fe)
            bad == \E k \in 1..Len(made) : made[k].res = "NotFound"
        IN  /\ calls' = calls \o made
            /\ IF bad
               THEN Failed(Error("", <<>>, "NotFound"))
               ELSE /\ pc' = "askProject"
                    /\ err' = err
    /\ UNCHANGED <<colorEnv, NoColor, DisableColor, flags, appName, svcName, envName, appNames, envNames, ai, ei,
                   appEnvs, appEnvNames, out>>

---------------------------------------------------------------------------
(* appStatusOpts.askProject, with retrieveProjects *)

\* Variant of ProjectChoices: the names are collected back to front.
ProjectChoicesReversed(projs) == [k \in 1..Len(projs) |-> projs[Len(projs) + 1 - k]]

\* The choices handed to the project prompt: the names of the listed
\* projects, in listing order.
ProjectChoices(projs) == projs

askProject ==
    /\ pc = "askProject"
    /\ \/ /\ ~NotPassedIn(appName)
          /\ pc' = "askAppEnvName"
          /\ UNCHANGED <<appName, calls, err>>
       \/ /\ NotPassedIn(appName)
          /\ calls' = Append(calls, Call("ListApplications", <<>>, "Error", <<>>))
          /\ Failed(Wrap("list projects", <<>>, "StoreError"))
          /\ UNCHANGED appName
       \/ /\ NotPassedIn(appName)
          /\ \E projs \in ProjListings :
              LET listed == Call("ListApplications", <<>>, "ok", projs)
                  projNames == ProjectChoices(projs)
              IN  IF IsEmpty(projNames)
                  THEN /\ calls' = Append(calls, listed)
                       /\ Failed(Error("no project found", <<>>, ""))
                       /\ UNCHANGED appName
                  ELSE \/ \E proj \in Range(projNames) :
                            /\ calls' = calls \o
                                 <<listed, SelectOne(appStatusProjectNamePrompt, projNames,
                                              "ok", <<proj>>)>>
                            /\ appName' = proj
                            /\ pc' = "askAppEnvName"
                            /\ err' = err
                       \/ \E cause \in {"Aborted", "PromptError"} :
                            /\ calls' = calls \o
                                 <<listed, SelectOne(appStatusProjectNamePrompt, projNames,
                                              cause, <<>>)>>
                            /\ Failed(Wrap("select project", <<>>, cause))
                            /\ UNCHANGED appName
    /\ UNCHANGED <<colorEnv, NoColor, DisableColor, flags, svcName, envName, appNames, envNames, ai, ei,
                   appEnvs, appEnvNames, out>>

---------------------------------------------------------------------------
(* appStatusOpts.askAppEnvName, with retrieveAllAppNames and               *)
(* retrieveAllEnvNames.  The handler is followed call by call: the service *)
(* candidates, the environment candidates, one probe per turn of the       *)
(* nested loop, then the decision on the deployed pairs.                   *)

\* Lines 160-169: the service candidates.
ServiceCandidates ==
    /\ pc = "askAppEnvName"
    /\ \/ /\ ~NotPassedIn(svcName)
          /\ appNames' = <<svcName>>
          /\ pc' = "envNames"
          /\ UNCHANGED <<calls, err>>
       \/ /\ NotPassedIn(svcName)
          /\ calls' = Append(calls, Call("ListServices", <<appName>>, "Error", <<>>))
          /\ Failed(Wrap("list applications for project", <<appName>>, "StoreError"))
          /\ UNCHANGED appNames
       \/ /\ NotPassedIn(svcName)
          /\ \E apps \in Listings(SvcNames, MaxList) :
              /\ calls' = Append(calls, Call("ListServices", <<appName>>, "ok", apps))
              /\ IF IsEmpty(apps)
                 THEN /\ Failed(Error("no applications found in project", <<appName>>, ""))
                      /\ UNCHANGED appNames
                 ELSE /\ appNames' = apps
                      /\ pc' = "envNames"
                      /\ err' = err
    /\ UNCHANGED <<colorEnv, NoColor, DisableColor, flags, appName, svcName, envName, envNames, ai, ei,
                   appEnvs, appEnvNames, out>>

\* Where the nested `for ... range` loops over apps and envs start: at the
\* first pair, or past the loops when one of the two is empty.
LoopEntry(apps, envs) == IF Len(apps) = 0 \/ Len(envs) = 0 THEN "select" ELSE "probe"

\* The longest environment listing explored next to the service candidates
\* apps: at most MaxList names, and a cross product within MaxPairs.
MaxEnvs(apps) ==
    LET most == IF Len(apps) = 0 THEN MaxPairs ELSE MaxPairs \div Len(apps)
    IN  IF most < MaxList THEN most ELSE MaxList

\* Lines 171-183: the environment candidates, then the empty candidate set
\* and the start of the loop.
EnvironmentCandidates ==
    /\ pc = "envNames"
    /\ \/ /\ ~NotPassedIn(envName)
          /\ envNames' = <<envName>>
          /\ pc' = LoopEntry(appNames, envNames')
          /\ UNCHANGED <<calls, err>>
       \/ /\ NotPassedIn(envName)
          /\ calls' = Append(calls, Call("ListEnvironments", <<appName>>, "Error", <<>>))
          /\ Failed(Wrap("list environments for project", <<appName>>, "StoreError"))
          /\ UNCHANGED envNames
       \/ /\ NotPassedIn(envName)
          /\ \E envs \in Listings(EnvNames, MaxEnvs(appNames)) :
              /\ calls' = Append(calls, Call("ListEnvironments", <<appName>>, "ok", envs))
              /\ IF IsEmpty(envs)
                 THEN /\ Failed(Error("no environments found in project", <<appName>>, ""))
                      /\ UNCHANGED envNames
                 ELSE /\ envNames' = envs
                      /\ pc' = LoopEntry(appNames, envNames')
                      /\ err' = err
    /\ appEnvs' = EmptyMap
    /\ appEnvNames' = <<>>
    /\ ai' = 1
    /\ ei' = 1
    /\ UNCHANGED <<colorEnv, NoColor, DisableColor, flags, appName, svcName, envName, appNames, out>>

\* The loop moves on to the next environment, then to the next service; past
\* the last pair it is over.
Advance ==
    IF ei < Len(envNames)
    THEN /\ ei' = ei + 1
         /\ UNCHANGED ai
         /\ pc' = "probe"
    ELSE /\ ei' = 1
         /\ ai' = ai + 1
         /\ pc' = IF ai < Len(appNames) THEN "probe" ELSE "select"

\* Lines 186-203: one turn of the nested loop, for the candidate
\* (appNames[ai], envNames[ei]).  initAppDescriber is the function
\* newAppStatusOpts installs (lines 52-59); GetServiceArn is asked of the
\* describer it has just stored in o.appDescriber.
ProbeCandidate ==
    /\ pc = "probe"
    /\ LET app == appNames[ai]
           env == envNames[ei]
           triple == <<appName, env, app>>
       IN  \/ /\ calls' = Append(calls, Call("initAppDescriber", triple, "Error", <<>>))
              /\ Failed(Wrap("creating stack describer for project", <<appName>>,
                             "DescriberError"))
              /\ UNCHANGED <<ai, ei, appEnvs, appEnvNames>>
           \/ \E res \in {"Deployed", "NotDeployed", "Error"} :
              /\ calls' = calls \o <<Call("initAppDescriber", triple, "ok", <<>>),
                                     Call("GetServiceArn", triple, res, <<>>)>>
              /\ IF res # "Deployed"
                 THEN IF IsStackNotExistsErr(res)
                      THEN /\ Advance
                           /\ UNCHANGED <<appEnvs, appEnvNames, err>>
                      ELSE /\ Failed(Wrap("check if app is deployed in env",
                                          <<app, env>>, "ProbeError"))
                           /\ UNCHANGED <<ai, ei, appEnvs, appEnvNames>>
                 ELSE LET appEnv == SvcEnv(app, env)
                          appEnvName == String(appEnv)
                      IN  /\ appEnvs' = Put(appEnvs, appEnvName, appEnv)
                          /\ appEnvNames' = Retain(appEnvNames, appEnvName)
                          /\ Advance
                          /\ err' = err
    /\ UNCHANGED <<colorEnv, NoColor, DisableColor, flags, appName, svcName, envName, appNames, envNames, out>>

\* Lines 205-229: the decision on the deployed pairs.
SelectDeployed ==
    /\ pc = "select"
    /\ IF IsEmpty(appEnvNames)
       THEN /\ Failed(Error("no deployed apps found in project", <<appName>>, ""))
            /\ UNCHANGED <<svcName, envName, calls, out>>
       ELSE IF OnlyOne(appEnvNames)
       THEN /\ out' = Append(out, <<"Only found one deployed app, defaulting to",
                                    appEnvNames[1]>>)
            /\ svcName' = appEnvs[appEnvNames[1]].svcName
            /\ envName' = appEnvs[appEnvNames[1]].envName
            /\ pc' = "Execute"
            /\ UNCHANGED <<calls, err>>
       ELSE \/ \E appEnvName \in Range(appEnvNames) :
                 /\ calls' = Append(calls,
                        SelectOne(svcLogNamePrompt, appEnvNames, "ok", <<appEnvName>>))
                 /\ svcName' = appEnvs[appEnvName].svcName
                 /\ envName' = appEnvs[appEnvName].envName
                 /\ pc' = "Execute"
                 /\ UNCHANGED <<out, err>>
            \/ \E cause \in {"Aborted", "PromptError"} :
                 /\ calls' = Append(calls, SelectOne(svcLogNamePrompt, appEnvNames, cause, <<>>))
                 /\ Failed(Wrap("select deployed applications for project",
                                <<appName>>, cause))
                 /\ UNCHANGED <<svcName, envName, out>>
    /\ UNCHANGED <<colorEnv, NoColor, DisableColor, flags, appName, appNames, envNames, ai, ei, appEnvs, appEnvNames>>

askAppEnvName ==
    \/ ServiceCandidates
    \/ EnvironmentCandidates
    \/ ProbeCandidate
    \/ SelectDeployed

\* appStatusOpts.Ask
Ask == askProject \/ askAppEnvName

---------------------------------------------------------------------------
(* appStatusOpts.Execute.  shouldOutputJSON is read here only, so the flag *)
(* is drawn here.                                                           *)

Execute ==
    /\ pc = "Execute"
    /\ LET triple == <<appName, envName, svcName>>
       IN  \/ /\ calls' = Append(calls, Call("initStatusDescriber", triple, "Error", <<>>))
              /\ Failed(Wrap("creating status describer for application in project",
                             <<svcName, appName>>, "DescriberError"))
              /\ UNCHANGED out
           \/ /\ calls' = calls \o <<Call("initStatusDescriber", triple, "ok", <<>>),
                                     Call("Describe", triple, "Error", <<>>)>>
              /\ Failed(Wrap("describe status of application", <<svcName>>,
                             "DescribeError"))
              /\ UNCHANGED out
           \/ \E shouldOutputJSON \in BOOLEAN, rendered \in BOOLEAN :
              /\ calls' = calls \o <<Call("initStatusDescriber", triple, "ok", <<>>),
                                     Call("Describe", triple, "ok", <<>>)>>
              /\ IF shouldOutputJSON /\ ~rendered
                 THEN /\ Failed(Error("", <<>>, "JSONError"))
                      /\ UNCHANGED out
                 ELSE /\ out' = Append(out,
                             <<IF shouldOutputJSON THEN "JSONString" ELSE "HumanString">>)
                      /\ pc' = "done"
                      /\ err' = err
    /\ UNCHANGED <<colorEnv, NoColor, DisableColor, flags, appName, svcName, envName, appNames, envNames, ai, ei,
                   appEnvs, appEnvNames>>

---------------------------------------------------------------------------
(* The RunE closure of BuildAppStatusCmd: Validate, Ask, Execute, each run *)
(* only if the one before it returned no error.                            *)

Next ==
    \/ Validate
    \/ askProject
    \/ ServiceCandidates
    \/ EnvironmentCandidates
    \/ ProbeCandidate
    \/ SelectDeployed
    \/ Execute

Spec == Init /\ [][Next]_vars

---------------------------------------------------------------------------
(* Package color: DisableColorBasedOnEnvVar, on its own.  A value of the   *)
(* environment variable is a sequence of characters.                       *)

\* The lower-case letter of each upper-case letter.
LowerCase ==
    "A" :> "a" @@ "B" :> "b" @@ "C" :> "c" @@ "D" :> "d" @@ "E" :> "e" @@
    "F" :> "f" @@ "G" :> "g" @@ "H" :> "h" @@ "I" :> "i" @@ "J" :> "j" @@
    "K" :> "k" @@ "L" :> "l" @@ "M" :> "m" @@ "N" :> "n" @@ "O" :> "o" @@
    "P" :> "p" @@ "Q" :> "q" @@ "R" :> "r" @@ "S" :> "s" @@ "T" :> "t" @@
    "U" :> "u" @@ "V" :> "v" @@ "W" :> "w" @@ "X" :> "x" @@ "Y" :> "y" @@
    "Z" :> "z"

\* Variant of ToLower: the value is compared as it is written.
ToLowerMissing(value) == value

\* strings.ToLower(value)
ToLower(value) ==
    [k \in 1..Len(value) |->
        IF value[k] \in DOMAIN LowerCase THEN LowerCase[value[k]] ELSE value[k]]

\* The ways of writing a lower-case word with some of its letters in upper
\* case.
UpperCase == [c \in {"a", "e", "f", "l", "r", "s", "t", "u"} |->
                CHOOSE u \in DOMAIN LowerCase : LowerCase[u] = c]
Spellings(word) ==
    {[k \in 1..Len(word) |-> IF k \in S THEN UpperCase[word[k]] ELSE word[k]] :
        S \in SUBSET (1..Len(word))}

\* Values of COLOR that are neither "false" nor "true" in any letter case.
OtherValues ==
    {<<>>, <<"0">>, <<"1">>, <<"n", "o">>, <<"o", "f", "f">>, <<"f", "a", "l", "s">>,
     <<"t", "r", "u", "e", "e">>, <<"F", "A", "L", "S", "E", " ">>}

ColorValues ==
    Spellings(<<"f", "a", "l", "s", "e">>) \cup Spellings(<<"t", "r", "u", "e">>)
        \cup OtherValues

\* Before the command runs: the variable is unset or set to some value, and
\* the two toggles are as the libraries initialised them.
InitColor ==
    /\ colorEnv \in {Unset} \cup {SetTo(v) : v \in ColorValues}
    /\ NoColor \in BOOLEAN
    /\ DisableColor \in BOOLEAN
    /\ pc = "main"
    /\ flags = [appName |-> "", svcName |-> "", envName |-> ""]
    /\ appName = ""
    /\ svcName = ""
    /\ envName = ""
    /\ appNames = <<>>
    /\ envNames = <<>>
    /\ ai = 1
    /\ ei = 1
    /\ appEnvs = EmptyMap
    /\ appEnvNames = <<>>
    /\ calls = <<>>
    /\ out = <<>>
    /\ err = Nil

DisableColorBasedOnEnvVar ==
    /\ pc = "main"
    /\ pc' = "colored"
    /\ LET value == colorEnv.value
           exists == colorEnv.exists
       IN  IF ~exists
           THEN /\ DisableColor' = NoColor
                /\ UNCHANGED NoColor
           ELSE IF ToLower(value) = <<"f", "a", "l", "s", "e">>
           THEN /\ DisableColor' = TRUE
                /\ NoColor' = TRUE
           ELSE IF ToLower(value) = <<"t", "r", "u", "e">>
           THEN /\ DisableColor' = FALSE
                /\ NoColor' = FALSE
           ELSE UNCHANGED <<DisableColor, NoColor>>
    /\ UNCHANGED <<colorEnv, flags, appName, svcName, envName, appNames, envNames,
                   ai, ei, appEnvs, appEnvNames, calls, out, err>>

NextColor == DisableColorBasedOnEnvVar

SpecColor == InitColor /\ [][NextColor]_vars

---------------------------------------------------------------------------
(* Views of the log and of the outcome of a run, used to state properties. *)

\* The prober constructions (initAppDescriber) and the probes proper
\* (GetServiceArn) made so far, in order.
Attempts == CallsOf({"initAppDescriber"})
Probes == CallsOf({"GetServiceArn"})

\* The (service, environment) pair a logged probe was made for.
PairOf(c) == <<c.args[3], c.args[2]>>

\* The probes that answered Deployed.
DeployedProbes == SelectSeq(Probes, LAMBDA c : c.res = "Deployed")

IsPrompt(c, prompt) == c.op = "SelectOne" /\ c.args[1] = prompt

\* The invocations of the chooser for a project and for a deployed pair.
ProjectPrompts == SelectSeq(calls, LAMBDA c : IsPrompt(c, appStatusProjectNamePrompt))
PairPrompts == SelectSeq(calls, LAMBDA c : IsPrompt(c, svcLogNamePrompt))

\* The choices a logged chooser invocation was given.
Choices(c) == Tail(c.args)

\* What a listing operation returned to this run (empty if it was not
\* called, or failed).
Listed(op) ==
    LET cs == SelectSeq(calls, LAMBDA c : c.op = op /\ c.res = "ok")
    IN  IF cs = <<>> THEN <<>> ELSE cs[1].ret

\* The service and environment candidates of the run, from what was passed
\* in and from what the catalog listed.
SvcCandidates == IF flags.svcName # "" THEN <<flags.svcName>> ELSE Listed("ListServices")
EnvCandidates == IF flags.envName # "" THEN <<flags.envName>> ELSE Listed("ListEnvironments")

\* The cross product of two sequences, first-major and second-minor.
CrossSeq(A, B) ==
    [k \in 1..(Len(A) * Len(B)) |->
        <<A[((k - 1) \div Len(B)) + 1], B[((k - 1) % Len(B)) + 1]>>]

\* The candidate pairs of the run, in service-major, environment-minor order.
Candidates == CrossSeq(SvcCandidates, EnvCandidates)

\* Every candidate was probed and every probe answered Deployed or
\* NotDeployed.
AllProbed ==
    /\ Len(Candidates) > 0
    /\ Len(Probes) = Len(Candidates)
    /\ \A k \in 1..Len(Probes) : Probes[k].res \in {"Deployed", "NotDeployed"}
    /\ \A k \in 1..Len(Attempts) : Attempts[k].res = "ok"

\* The messages of the errors askAppEnvName returns.
ResolveMsgs ==
    {"list applications for project", "no applications found in project",
     "list environments for project", "no environments found in project",
     "creating stack describer for project", "check if app is deployed in env",
     "no deployed apps found in project", "select deployed applications for project"}

\* askAppEnvName has returned: an error, or nil (Execute comes next or has
\* been run).
ResolutionFailed == pc = "done" /\ err.msg \in ResolveMsgs
ResolutionSucceeded ==
    \/ pc = "Execute"
    \/ pc = "done" /\ CallsOf({"initStatusDescriber"}) # <<>>
ResolutionOver == ResolutionFailed \/ ResolutionSucceeded

---------------------------------------------------------------------------
(* Properties. *)

\* C1: when the service and the environment are both passed in (the project
\* is never empty once resolution runs), askAppEnvName lists nothing from the
\* catalog and makes exactly one deployment probe, for exactly the triple
\* (project, environment, service) it was given.
C1_SuppliedTripleProbedOnce ==
    (flags.svcName # "" /\ flags.envName # "") =>
        /\ CallsOf({"ListServices", "ListEnvironments"}) = <<>>
        /\ ResolutionOver =>
            /\ appName # ""
            /\ Len(CallsOf({"ListApplications"})) = (IF flags.appName = "" THEN 1 ELSE 0)
            /\ Len(Attempts) = 1
            /\ Attempts[1].args = <<appName, flags.envName, flags.svcName>>
            /\ Len(Probes) = (IF Attempts[1].res = "ok" THEN 1 ELSE 0)
            /\ \A k \in 1..Len(Probes) : Probes[k].args = Attempts[1].args

C1_Witness ==
    /\ flags.svcName # "" /\ flags.envName # ""
    /\ pc = "Execute"
    /\ Len(Probes) = 1
    /\ Probes[1].args = <<appName, envName, svcName>>

\* C2: when every candidate was probed with Deployed or NotDeployed and
\* exactly one candidate of the cross product answered Deployed, resolution
\* succeeds with that pair and the pair chooser is never invoked.
C2_SingleDeployedAutoSelected ==
    (ResolutionOver /\ AllProbed /\ Len(DeployedProbes) = 1) =>
        /\ ResolutionSucceeded
        /\ <<svcName, envName>> = PairOf(DeployedProbes[1])
        /\ PairPrompts = <<>>

C2_Witness ==
    /\ pc = "Execute"
    /\ Len(Candidates) = 4
    /\ AllProbed
    /\ Len(DeployedProbes) = 1
    /\ PairOf(DeployedProbes[1]) = Candidates[3]
    /\ <<svcName, envName>> = Candidates[3]

\* C3: when every candidate was probed with Deployed or NotDeployed and N > 1
\* candidates answered Deployed, the pair chooser is invoked exactly once,
\* with exactly N choices: the display keys of the Deployed candidates, in
\* service-major, environment-minor listing order.
C3_ChooserGetsDeployedKeysInOrder ==
    (ResolutionOver /\ AllProbed /\ Len(DeployedProbes) > 1) =>
        /\ Len(PairPrompts) = 1
        /\ \A k \in 1..Len(Probes) : PairOf(Probes[k]) = Candidates[k]
        /\ Choices(PairPrompts[1]) =
             [k \in 1..Len(DeployedProbes) |->
                 String(SvcEnv(PairOf(DeployedProbes[k])[1], PairOf(DeployedProbes[k])[2]))]

\* Two services, two environments, deployed only on the diagonal: the
\* chooser is given the keys of the first and of the last candidate.
C3_Witness ==
    /\ pc = "Execute"
    /\ Len(SvcCandidates) = 2 /\ SvcCandidates[1] # SvcCandidates[2]
    /\ Len(EnvCandidates) = 2 /\ EnvCandidates[1] # EnvCandidates[2]
    /\ AllProbed
    /\ [k \in 1..4 |-> Probes[k].res] =
          <<"Deployed", "NotDeployed", "NotDeployed", "Deployed">>
    /\ Len(PairPrompts) = 1
    /\ Choices(PairPrompts[1]) = <<"api/test", "api/test/test/test">>

\* C4: when the candidates are not empty and every probe of the cross product
\* answered NotDeployed, resolution fails with "no deployed apps found" and
\* the pair chooser is never invoked.
C4_NoneDeployedFails ==
    (ResolutionOver /\ AllProbed /\ DeployedProbes = <<>>) =>
        /\ pc = "done"
        /\ err = Error("no deployed apps found in project", <<appName>>, "")
        /\ PairPrompts = <<>>

C4_Witness ==
    /\ pc = "done"
    /\ Len(Candidates) = 4
    /\ AllProbed
    /\ DeployedProbes = <<>>
    /\ err.msg = "no deployed apps found in project"

\* A deployment probe that failed for a reason other than NotDeployed: the
\* describer could not be constructed, or GetServiceArn failed otherwise.
HardFailure(c) == c.op \in {"initAppDescriber", "GetServiceArn"} /\ c.res = "Error"

\* C5 as claimed: when a probe fails for a reason other than NotDeployed,
\* resolution fails with an error that wraps the cause and names the whole
\* (project, environment, service) triple, the failed probe is the last call
\* of the run and the pair chooser is not invoked.
C5_ProbeFailureNamesTriple ==
    \A k \in 1..Len(calls) :
        HardFailure(calls[k]) =>
            /\ pc = "done"
            /\ err.cause \in {"ProbeError", "DescriberError"}
            /\ Range(calls[k].args) \subseteq Range(err.names)
            /\ k = Len(calls)
            /\ PairPrompts = <<>>

\* C5, amended: when a probe fails for a reason other than NotDeployed,
\* resolution fails with an error that wraps the cause; a failure of
\* GetServiceArn is reported with the service and the environment of that
\* candidate and not the project, a failure to construct the describer with
\* the project alone.  The failed probe is the last call of the run (no
\* later candidate is probed, the chooser is not invoked), however many
\* earlier candidates were Deployed.
C5_ProbeFailureNamesServiceAndEnvironment ==
    \A k \in 1..Len(calls) :
        HardFailure(calls[k]) =>
            /\ pc = "done"
            /\ err = (IF calls[k].op = "GetServiceArn"
                      THEN Error("check if app is deployed in env",
                                 <<calls[k].args[3], calls[k].args[2]>>, "ProbeError")
                      ELSE Error("creating stack describer for project",
                                 <<calls[k].args[1]>>, "DescriberError"))
            /\ k = Len(calls)
            /\ PairPrompts = <<>>

\* A probe fails after two candidates answered Deployed.
C5_Witness ==
    /\ pc = "done"
    /\ Len(Probes) = 3
    /\ Len(DeployedProbes) = 2
    /\ Probes[3].res = "Error"
    /\ err.names = <<Candidates[3][1], Candidates[3][2]>>

\* The messages of the errors the probing loop returns.
LoopMsgs == {"creating stack describer for project", "check if app is deployed in env"}

\* No describer construction and no probe has failed hard so far.
NoHardFailure ==
    /\ \A k \in 1..Len(Attempts) : Attempts[k].res = "ok"
    /\ \A k \in 1..Len(Probes) : Probes[k].res \in {"Deployed", "NotDeployed"}

\* The probing loop has run to its end.
LoopEnded ==
    \/ pc = "select"
    \/ ResolutionSucceeded
    \/ pc = "done" /\ err.msg \in {"no deployed apps found in project",
                                   "select deployed applications for project"}

\* C6: the probes made so far are, one for one and in order, the first
\* candidates of the cross product in service-major, environment-minor
\* listing order; as long as no probe has failed hard the loop has not
\* failed (NotDeployed only drops the pair), and when it ends every candidate
\* has been probed exactly once (Deployed does not stop it).
C6_EveryCandidateProbedOnceInOrder ==
    /\ Len(Attempts) <= Len(Candidates)
    /\ \A k \in 1..Len(Attempts) :
          Attempts[k].args = <<appName, Candidates[k][2], Candidates[k][1]>>
    /\ Len(Probes) <= Len(Attempts)
    /\ \A k \in 1..Len(Probes) : Probes[k].args = Attempts[k].args
    /\ NoHardFailure =>
          /\ ~(pc = "done" /\ err.msg \in LoopMsgs)
          /\ LoopEnded => (Len(Probes) = Len(Candidates) /\ Len(Candidates) > 0)

\* Four candidates, the first Deployed, the second NotDeployed, all probed.
C6_Witness ==
    /\ pc = "select"
    /\ Len(Candidates) = 4
    /\ Len(Probes) = 4
    /\ Probes[1].res = "Deployed"
    /\ Probes[2].res = "NotDeployed"
    /\ Len(appEnvNames) = 2

\* C7: when resolution succeeds, the resolved pair is a candidate of the
\* cross product whose probe in this run answered Deployed, and when the
\* chooser was used its display key is the selected key.
C7_ResolvedPairWasProbedDeployed ==
    ResolutionSucceeded =>
        /\ \E k \in 1..Len(Probes) :
              /\ Probes[k].res = "Deployed"
              /\ PairOf(Probes[k]) = <<svcName, envName>>
              /\ k <= Len(Candidates)
              /\ Candidates[k] = <<svcName, envName>>
        /\ PairPrompts # <<>> =>
              /\ PairPrompts[1].res = "ok"
              /\ PairPrompts[1].ret = <<String(SvcEnv(svcName, envName))>>

\* The chooser is used and the selected key is shared by two deployed pairs.
C7_Witness ==
    /\ pc = "Execute"
    /\ Len(PairPrompts) = 1
    /\ PairPrompts[1].ret = <<"api/test/test">>
    /\ \E i, j \in 1..Len(DeployedProbes) :
          /\ PairOf(DeployedProbes[i]) = <<"api", "test/test">>
          /\ PairOf(DeployedProbes[j]) = <<"api/test", "test">>

\* The successful listings of an operation that returned no name.
EmptyListings(op) ==
    SelectSeq(calls, LAMBDA c : c.op = op /\ c.res = "ok" /\ c.ret = <<>>)

\* C8: when the services are listed and there is none, resolution fails with
\* "no applications found" before the environments are listed and before any
\* probe; when the environments are listed and there is none, it fails with
\* "no environments found" before any probe.
C8_EmptyListingFailsBeforeProbing ==
    /\ EmptyListings("ListServices") # <<>> =>
          /\ flags.svcName = ""
          /\ pc = "done"
          /\ err = Error("no applications found in project", <<appName>>, "")
          /\ CallsOf({"ListEnvironments", "initAppDescriber", "GetServiceArn"}) = <<>>
    /\ EmptyListings("ListEnvironments") # <<>> =>
          /\ flags.envName = ""
          /\ pc = "done"
          /\ err = Error("no environments found in project", <<appName>>, "")
          /\ CallsOf({"initAppDescriber", "GetServiceArn"}) = <<>>

C8_Witness ==
    /\ flags.svcName = "" /\ flags.envName = ""
    /\ EmptyListings("ListServices") # <<>>
    /\ pc = "done"
    /\ err.msg = "no applications found in project"

\* C9: when the chooser reports cancellation or another error, for a project
\* or for a pair, the run fails with an error of that same kind, wrapped with
\* the stage it happened in; the failed selection is the last call of the
\* run (no retry, no success).
C9_ChooserFailurePropagates ==
    \A k \in 1..Len(calls) :
        (calls[k].op = "SelectOne" /\ calls[k].res # "ok") =>
            /\ pc = "done"
            /\ k = Len(calls)
            /\ err.cause = calls[k].res
            /\ err.cause \in {"Aborted", "PromptError"}
            /\ err.msg = (IF IsPrompt(calls[k], appStatusProjectNamePrompt)
                          THEN "select project"
                          ELSE "select deployed applications for project")

C9_Witness ==
    /\ pc = "done"
    /\ Len(PairPrompts) = 1
    /\ PairPrompts[1].res = "Aborted"
    /\ err.cause = "Aborted"
    /\ Len(ProjectPrompts) = 1

\* askProject has returned.
ProjectOver ==
    /\ pc \notin {"Validate", "askProject"}
    /\ ~(pc = "done" /\ err.cause = "NotFound")

\* C10: a project that was passed in is left as it is, with no project
\* listing and no project prompt; otherwise the projects are listed exactly
\* once, an empty listing fails with "no project found" without a prompt,
\* and a non-empty one is prompted for exactly once, with all its names in
\* listing order, the selection becoming the project.
C10_AskProject ==
    /\ flags.appName # "" =>
          /\ appName = flags.appName
          /\ CallsOf({"ListApplications"}) = <<>>
          /\ ProjectPrompts = <<>>
    /\ (flags.appName = "" /\ ProjectOver) =>
          LET ls == CallsOf({"ListApplications"})
          IN  /\ Len(ls) = 1
              /\ IF ls[1].res = "ok" /\ ls[1].ret # <<>>
                 THEN /\ Len(ProjectPrompts) = 1
                      /\ Choices(ProjectPrompts[1]) = ls[1].ret
                      /\ ProjectPrompts[1].res = "ok" =>
                            appName = ProjectPrompts[1].ret[1]
                 ELSE /\ ProjectPrompts = <<>>
                      /\ pc = "done"
                      /\ ls[1].res = "ok" => err = Error("no project found", <<>>, "")

C10_Witness ==
    /\ flags.appName = ""
    /\ pc = "askAppEnvName"
    /\ Len(ProjectPrompts) = 1
    /\ Choices(ProjectPrompts[1]) = <<"tea", "coffee">>
    /\ appName = "coffee"

\* The existence lookups of Validate, and the lookups made so far.
LookupOps == {"GetApplication", "GetService", "GetEnvironment"}
Lookups == CallsOf(LookupOps)

\* The identifier a logged lookup was made for, and the one passed in for it.
LookedUp(c) == c.args[Len(c.args)]
PassedIn(op) ==
    CASE op = "GetApplication" -> flags.appName
      [] op = "GetService" -> flags.svcName
      [] op = "GetEnvironment" -> flags.envName

\* C11: a lookup that answers not-found ends the run with that error as it
\* was received, and it is the last call of the run: only lookups come
\* before it, so no listing, no probe and no chooser is ever reached.  A
\* lookup is made only for an identifier that was passed in, and once
\* Validate has returned without error every identifier passed in was
\* looked up.
C11_NotFoundFailsBeforeAnythingElse ==
    /\ \A k \in 1..Len(calls) :
        (calls[k].op \in LookupOps /\ calls[k].res = "NotFound") =>
            /\ k = Len(calls)
            /\ \A j \in 1..k : calls[j].op \in LookupOps
            /\ pc = "done"
            /\ err = Error("", <<>>, "NotFound")
            /\ out = <<>>
    /\ \A k \in 1..Len(Lookups) :
        /\ PassedIn(Lookups[k].op) # ""
        /\ LookedUp(Lookups[k]) = PassedIn(Lookups[k].op)
        /\ \A j \in 1..Len(Lookups) : Lookups[j].op = Lookups[k].op => j = k
    /\ (pc # "Validate" /\ err.cause # "NotFound") =>
        \A op \in LookupOps :
            PassedIn(op) # "" => \E k \in 1..Len(Lookups) : Lookups[k].op = op

\* All three identifiers were passed in, the project exists and the service
\* does not: the run is over after two lookups.
C11_Witness ==
    /\ pc = "done"
    /\ flags.envName # ""
    /\ Len(calls) = 2
    /\ calls[1] = Call("GetApplication", <<flags.appName>>, "ok", <<>>)
    /\ calls[2] = Call("GetService", <<flags.appName, flags.svcName>>, "NotFound", <<>>)
    /\ err = Error("", <<>>, "NotFound")

\* The messages of the errors Ask returns.
AskMsgs == ResolveMsgs \cup {"list projects", "no project found", "select project"}

\* The invocations of the status reporter.
Described == CallsOf({"Describe"})

\* C12: the status reporter is invoked at most once; when it is invoked, it
\* is the last call of the run and comes right after its construction, no
\* call before it failed, the project, service and environment it is invoked
\* with are those the options hold and none is empty, and that service and
\* environment were probed deployed in that project.  A run that failed in
\* Validate or in Ask has not invoked it.
C12_DescribeOnceAfterValidateAndAsk ==
    /\ Len(Described) <= 1
    /\ \A k \in 1..Len(calls) :
        calls[k].op = "Describe" =>
            /\ k = Len(calls)
            /\ pc = "done"
            /\ calls[k].args = <<appName, envName, svcName>>
            /\ appName # "" /\ svcName # "" /\ envName # ""
            /\ calls[k - 1] = Call("initStatusDescriber", calls[k].args, "ok", <<>>)
            /\ \A j \in 1..(k - 1) : calls[j].res \in {"ok", "Deployed", "NotDeployed"}
            /\ \E j \in 1..Len(DeployedProbes) :
                DeployedProbes[j].args = <<appName, envName, svcName>>
    /\ (pc = "done" /\ (err.cause = "NotFound" \/ err.msg \in AskMsgs)) =>
        Described = <<>>

\* The project and the pair were both chosen at a prompt, and the status
\* reporter was invoked and answered.
C12_Witness ==
    /\ pc = "done"
    /\ err = Nil
    /\ ProjectPrompts # <<>>
    /\ PairPrompts # <<>>
    /\ Len(Described) = 1
    /\ Described[1].res = "ok"

\* The auto-selection notices written so far.
Notices ==
    SelectSeq(out, LAMBDA o : o[1] = "Only found one deployed app, defaulting to")

\* C13: at most one notice is written; once resolution is over there is one
\* exactly if every candidate was probed and exactly one probe answered
\* Deployed, and then it shows the display key of that pair, no pair prompt
\* was made and resolution succeeded.  Until Execute runs the notices are all
\* the output there is, so a run that failed in Validate or Ask, and a run
\* that prompted for the pair, wrote nothing.
C13_NoticeExactlyForOneDeployedPair ==
    /\ Len(Notices) <= 1
    /\ ResolutionOver => (Notices # <<>> <=> (AllProbed /\ Len(DeployedProbes) = 1))
    /\ Notices # <<>> =>
        /\ AllProbed
        /\ Len(DeployedProbes) = 1
        /\ Notices[1][2] = String(SvcEnv(PairOf(DeployedProbes[1])[1],
                                         PairOf(DeployedProbes[1])[2]))
        /\ PairPrompts = <<>>
        /\ ResolutionSucceeded
    /\ CallsOf({"initStatusDescriber"}) = <<>> => out = Notices
    /\ (pc = "done" /\ (err.cause = "NotFound" \/ err.msg \in AskMsgs)) => out = <<>>
    /\ PairPrompts # <<>> => Notices = <<>>

\* Four candidates were probed, only the last one is deployed, and the notice
\* for it was written.
C13_Witness ==
    /\ pc = "Execute"
    /\ Len(Probes) = 4
    /\ Len(DeployedProbes) = 1
    /\ Probes[4].res = "Deployed"
    /\ out = <<<<"Only found one deployed app, defaulting to",
                 String(SvcEnv(svcName, envName))>>>>

\* The invocations of the chooser, of either kind.
Prompts == CallsOf({"SelectOne"})

\* C14: every invocation of the chooser is for a project or for a deployed
\* pair; a project prompt is given at least one name and a pair prompt at
\* least two display keys.
C14_ChooserNeverGivenEmptyList ==
    \A k \in 1..Len(Prompts) :
        \/ /\ IsPrompt(Prompts[k], appStatusProjectNamePrompt)
           /\ Len(Choices(Prompts[k])) >= 1
        \/ /\ IsPrompt(Prompts[k], svcLogNamePrompt)
           /\ Len(Choices(Prompts[k])) >= 2

\* One project was listed and prompted for, and of four probed candidates
\* two were deployed and prompted for.
C14_Witness ==
    /\ Len(ProjectPrompts) = 1
    /\ Len(Choices(ProjectPrompts[1])) = 1
    /\ Len(Probes) = 4
    /\ Len(PairPrompts) = 1
    /\ Len(Choices(PairPrompts[1])) = 2

\* No element occurs twice in the sequence.
NoRepeat(s) == \A i \in 1..Len(s), j \in 1..Len(s) : s[i] = s[j] => i = j

\* The keys of the sequence are the keys of the mapping, each entry is a pair
\* whose display key is its key, and no two keys hold the same pair.
KeysAndEntriesAgree ==
    /\ Range(appEnvNames) = DOMAIN appEnvs
    /\ \A key \in DOMAIN appEnvs : String(appEnvs[key]) = key
    /\ \A k1 \in DOMAIN appEnvs, k2 \in DOMAIN appEnvs :
        appEnvs[k1] = appEnvs[k2] => k1 = k2

\* No two different candidate pairs of the run have the same display key.
KeysTellCandidatesApart ==
    \A i \in 1..Len(Candidates), j \in 1..Len(Candidates) :
        String(SvcEnv(Candidates[i][1], Candidates[i][2]))
            = String(SvcEnv(Candidates[j][1], Candidates[j][2]))
        => Candidates[i] = Candidates[j]

\* C15 as stated: the keys and the entries agree and no key occurs twice in
\* the sequence, whatever the catalog lists.
C15_NoKeyTwiceForEveryListing ==
    /\ KeysAndEntriesAgree
    /\ NoRepeat(appEnvNames)

\* C15: at every point of the probing loop the keys and the entries agree,
\* whatever the catalog lists; no key occurs twice in the sequence when the
\* listings repeat no name and no two candidate pairs share a display key.
C15_KeysAndEntriesAgree ==
    /\ KeysAndEntriesAgree
    /\ (NoRepeat(SvcCandidates) /\ NoRepeat(EnvCandidates) /\ KeysTellCandidatesApart)
        => NoRepeat(appEnvNames)

\* Four different pairs were found deployed, from listings that repeat no
\* name, and two of them have the same display key.
C15_Witness ==
    /\ pc = "select"
    /\ NoRepeat(SvcCandidates)
    /\ NoRepeat(EnvCandidates)
    /\ Len(DeployedProbes) = 4
    /\ Len(appEnvNames) = 4
    /\ Cardinality(DOMAIN appEnvs) = 3

\* C16: until askAppEnvName has returned nil, and after it has returned an
\* error, the service and the environment the options hold are the ones
\* passed in; once it has returned nil both are set, to the service and the
\* environment of one pair that was probed deployed.
C16_NoPartialResult ==
    /\ ~ResolutionSucceeded => (svcName = flags.svcName /\ envName = flags.envName)
    /\ ResolutionSucceeded =>
        /\ svcName # ""
        /\ envName # ""
        /\ \E k \in 1..Len(DeployedProbes) :
            /\ DeployedProbes[k].args[3] = svcName
            /\ DeployedProbes[k].args[2] = envName

\* The service was passed in and the environment was not; two pairs were
\* found deployed, the prompt was aborted, and the environment is still
\* not set.
C16_Witness ==
    /\ pc = "done"
    /\ err.msg = "select deployed applications for project"
    /\ Len(DeployedProbes) = 2
    /\ flags.svcName # ""
    /\ flags.envName = ""
    /\ svcName = flags.svcName
    /\ envName = ""

\* C18: the lookups are the first calls of a run, before any project listing
\* or prompt, and the service and environment lookups are made in the project
\* that was passed in, even when none was: with no project and a service (or,
\* failing that, an environment) passed in, the first call of the run is its
\* lookup in the empty project, and when a lookup in the empty project
\* answers not-found the run is over with no project listing and no prompt.
C18_LookupsUseProjectAsPassedIn ==
    /\ \A k \in 1..Len(calls) :
        calls[k].op \in LookupOps =>
            /\ calls[k].args[1] = flags.appName
            /\ \A j \in 1..k : calls[j].op \in LookupOps
    /\ (pc # "Validate" /\ flags.appName = "" /\ flags.svcName # "") =>
        /\ calls # <<>>
        /\ calls[1].op = "GetService"
        /\ calls[1].args = <<"", flags.svcName>>
    /\ (pc # "Validate" /\ flags.appName = "" /\ flags.svcName = "" /\ flags.envName # "") =>
        /\ calls # <<>>
        /\ calls[1].op = "GetEnvironment"
        /\ calls[1].args = <<"", flags.envName>>
    /\ \A k \in 1..Len(Lookups) :
        (Lookups[k].args[1] = "" /\ Lookups[k].res = "NotFound") =>
            /\ pc = "done"
            /\ err.cause = "NotFound"
            /\ appName = ""
            /\ CallsOf({"ListApplications", "SelectOne"}) = <<>>

\* No project was passed in; the service was found in the empty project and
\* the environment was not, and the run ended there.
C18_Witness ==
    /\ pc = "done"
    /\ flags.appName = ""
    /\ Len(calls) = 2
    /\ calls[1] = Call("GetService", <<"", flags.svcName>>, "ok", <<>>)
    /\ calls[2] = Call("GetEnvironment", <<"", flags.envName>>, "NotFound", <<>>)

\* C19: when the construction of the prober fails it is the last call of the
\* run: resolution has failed with the constructor's error, no probe was made
\* for that candidate, no pair prompt was made, nothing was written and the
\* service and environment are as passed in.
C19_ProberConstructionFailureAborts ==
    \A k \in 1..Len(calls) :
        (calls[k].op = "initAppDescriber" /\ calls[k].res = "Error") =>
            /\ k = Len(calls)
            /\ pc = "done"
            /\ err = Wrap("creating stack describer for project", <<appName>>,
                          "DescriberError")
            /\ Len(Probes) = Len(Attempts) - 1
            /\ Len(Attempts) <= Len(Candidates)
            /\ PairPrompts = <<>>
            /\ out = <<>>
            /\ svcName = flags.svcName
            /\ envName = flags.envName

\* Two candidates were probed deployed, the construction of the prober for
\* the third failed, and a fourth candidate was left.
C19_Witness ==
    /\ pc = "done"
    /\ Len(Candidates) = 4
    /\ Len(Attempts) = 3
    /\ Attempts[3].res = "Error"
    /\ Len(DeployedProbes) = 2

\* C20: DisableColorBasedOnEnvVar sets the toggles from COLOR: unset makes
\* core.DisableColor equal to color.NoColor and leaves color.NoColor; "false"
\* in any letter case makes both true; "true" in any letter case makes both
\* false; any other value leaves both as they were.
C20_ColorTogglesFollowEnvVar ==
    [][(pc = "main" /\ pc' = "colored") =>
        IF ~colorEnv.exists
        THEN DisableColor' = NoColor /\ NoColor' = NoColor
        ELSE IF colorEnv.value \in Spellings(<<"f", "a", "l", "s", "e">>)
        THEN DisableColor' /\ NoColor'
        ELSE IF colorEnv.value \in Spellings(<<"t", "r", "u", "e">>)
        THEN ~DisableColor' /\ ~NoColor'
        ELSE DisableColor' = DisableColor /\ NoColor' = NoColor]_vars

\* COLOR=FaLsE was applied and both toggles are set.
C20_Witness ==
    /\ pc = "colored"
    /\ colorEnv = SetTo(<<"F", "a", "L", "s", "E">>)
    /\ NoColor
    /\ DisableColor

====
